---- MODULE Spec2Model ----
(***************************************************************************)
(* Explainable-inference pipeline of the pneumonia detector.               *)
(*                                                                         *)
(*   grad_cam_utils.generate_gradcam_with_prediction  (dashboard path)     *)
(*   app.get_dynamic_threshold / THRESHOLD_OPTIONS    (threshold policy)   *)
(*   api.analyze_prediction                           (API path)           *)
(*                                                                         *)
(* Numbers.  Raw scores are fixed-point numbers with denominator One, so   *)
(* the integer 40 is the score 0.40.  A percentage p is held with the same *)
(* denominator, so confidence * 100 is the integer confidence * Percent    *)
(* and the value 9000 is 90.00 percent.  Pixels are 8-bit integers.  An    *)
(* alpha is a fixed-point number with denominator One.                     *)
(***************************************************************************)
EXTENDS Integers, Sequences, FiniteSets, TLC

VARIABLES
    layers,                 \* model.layers: the kinds of the layers, in order
    pc,                     \* position of the dashboard call
    alpha,                  \* argument alpha of generate_gradcam_with_prediction
    confidence,             \* float(prediction[0][0])
    prediction_result,      \* "Pneumonia" | "Normal"
    confidence_percent,
    last_conv_layer_index,  \* 0-based index as in the source, None before/without
    grad_model,             \* the rebuilt two-output model
    grads,                  \* tape.gradient(...)
    heatmap,                \* the local heatmap (raw, then clipped, then normalized)
    max_heat,
    superimposed_img,       \* one pixel/channel of the overlay
    ret,                    \* the returned dict
    exc,                    \* the exception that left the function
    current_prediction,     \* st.session_state.current_prediction of main
    fn,                     \* policy functions: which function was applied
    arg,                    \* policy functions: the raw score it was applied to
    arg_result,             \* policy functions: the label argument of get_prediction_analysis
    out,                    \* policy functions: its result
    r_in,                   \* blend: (original pixel, colorized pixel, alpha)
    r_out,                  \* blend: cv2.addWeighted result
    sh_in,                  \* overlay shape: shapes of img_array and of the tap output
    sh_out,                 \* overlay shape: the rendered overlay or the error
    api_pc,                 \* POST /predict: position of the handler
    api_req,                \* POST /predict: the request
    api_analysis,           \* POST /predict: analysis = analyze_prediction(prediction)
    prediction_id,          \* POST /predict: id returned by db.save_prediction
    email_result,           \* POST /predict: result of the email notification
    api_resp,               \* POST /predict: the HTTP response
    db_predictions,         \* MongoDB collection predictions
    db_images,              \* GridFS files
    c_pc,                   \* concurrent calls: idle, running or exited, per call
    c_in,                   \* concurrent calls: the arguments of each call
    c_out,                  \* concurrent calls: what each call returned or raised
    frames,                 \* concurrent calls: the local variables of each call
    db_instance,            \* database.py: the module global db_instance
    g_pc,                   \* get_database: position of each calling thread
    g_new,                  \* get_database: the instance a thread has constructed
    g_ret,                  \* get_database: what each call returned
    constructed,            \* number of PneumoniaDatabase instances constructed
    mongodb_available,      \* EmailSender.mongodb_available
    mongodb_collection,     \* the documents of the MongoDB collection reports
    fallback_reports,       \* EmailSender.fallback_reports
    e_op,                   \* EmailSender: the last method called
    e_arg,                  \* EmailSender: its arguments and the environment's answers
    e_ret,                  \* EmailSender: its result
    e_n,                    \* EmailSender: number of calls made
    log_calls,              \* history: number of calls of log_report
    logged                  \* history: number of log_report results with success

vars == <<layers, pc, alpha, confidence, prediction_result, confidence_percent,
          last_conv_layer_index, grad_model, grads, heatmap, max_heat,
          superimposed_img, ret, exc, current_prediction, fn, arg,
          arg_result, out, r_in, r_out, sh_in, sh_out, api_pc, api_req,
          api_analysis, prediction_id, email_result, api_resp, db_predictions,
          db_images, c_pc, c_in, c_out, frames, db_instance, g_pc, g_new,
          g_ret, constructed, mongodb_available, mongodb_collection,
          fallback_reports, e_op, e_arg, e_ret, e_n, log_calls, logged>>

pipeVars == <<layers, pc, alpha, confidence, prediction_result,
              confidence_percent, last_conv_layer_index, grad_model, grads,
              heatmap, max_heat, superimposed_img, ret, exc,
              current_prediction>>

policyVars == <<fn, arg, arg_result, out>>

renderVars == <<r_in, r_out>>

shapeVars == <<sh_in, sh_out>>

apiVars == <<api_pc, api_req, api_analysis, prediction_id, email_result,
             api_resp, db_predictions, db_images>>

concVars == <<c_pc, c_in, c_out, frames>>

dbVars == <<db_instance, g_pc, g_new, g_ret, constructed>>

emailVars == <<mongodb_available, mongodb_collection, fallback_reports, e_op,
               e_arg, e_ret, e_n, log_calls, logged>>

\* the variables each group of actions leaves alone
pipeOthers == <<dbVars, emailVars, concVars, policyVars, renderVars, shapeVars, apiVars>>

policyOthers == <<dbVars, emailVars, concVars, pipeVars, renderVars, shapeVars, apiVars>>

renderOthers == <<dbVars, emailVars, concVars, pipeVars, policyVars, shapeVars, apiVars>>

shapeOthers == <<dbVars, emailVars, concVars, pipeVars, policyVars, renderVars, apiVars>>

apiOthers == <<pipeVars, policyVars, renderVars, shapeVars, concVars, dbVars,
               emailVars>>

concOthers == <<pipeVars, policyVars, renderVars, shapeVars, apiVars, dbVars,
                emailVars>>

dbOthers == <<pipeVars, policyVars, renderVars, shapeVars, apiVars, concVars,
              emailVars>>

emailOthers == <<pipeVars, policyVars, renderVars, shapeVars, apiVars, concVars,
                 dbVars>>

None == <<>>          \* Python None (an absent value); a present value v is <<v>>

Some(v) == <<v>>

(***************************************************************************)
(* Bounds of the model.                                                    *)
(***************************************************************************)
MaxLayers == 3      \* longest layer sequence
MaxHeat == 2        \* largest raw activation value
MapLen == 2         \* cells of the activation map
PixStep == 51       \* spacing of the sampled pixel values
MaxDim == 3         \* largest height or width of an image or a tap output
MaxOps == 2         \* longest sequence of calls on the EmailSender

(***************************************************************************)
(* Program constants.                                                      *)
(***************************************************************************)
One == 100                               \* the score 1.0
Percent == 100                           \* confidence * 100
PNEUMONIA_THRESHOLD == 40                \* grad_cam_utils.py
PNEUMONIA_THRESHOLD_CONSERVATIVE == 30   \* app.py
PNEUMONIA_THRESHOLD_STANDARD == 40
PNEUMONIA_THRESHOLD_STRICT == 50
API_THRESHOLD == 50                      \* api.py analyze_prediction
DEFAULT_ALPHA == 60                      \* alpha=0.6
MaxPixel == 255                          \* np.uint8

Scores == 0..One

Labels == {"Pneumonia", "Normal"}

LayerKinds == {"Conv2D", "MaxPooling2D", "Dense"}

LayerSeqs == UNION {[1..n -> LayerKinds] : n \in 1..MaxLayers}

RawMaps == [1..MapLen -> (-1)..MaxHeat]

Pixels == {p \in 0..MaxPixel : p % PixStep = 0} \cup {1, MaxPixel - 1, MaxPixel}

(***************************************************************************)
(* Threshold policy.                                                       *)
(***************************************************************************)

\* variant of GradcamClassify: the comparison is not strict
GradcamClassify_NonStrict(conf) ==
    IF conf >= PNEUMONIA_THRESHOLD
    THEN [prediction_result |-> "Pneumonia", confidence |-> conf * Percent]
    ELSE [prediction_result |-> "Normal", confidence |-> (One - conf) * Percent]

\* variant of GradcamClassify: the threshold is the original 0.5
GradcamClassify_Original(conf) ==
    IF conf > PNEUMONIA_THRESHOLD_STRICT
    THEN [prediction_result |-> "Pneumonia", confidence |-> conf * Percent]
    ELSE [prediction_result |-> "Normal", confidence |-> (One - conf) * Percent]

\* grad_cam_utils.py, Step 1: label and confidence percentage of a raw score
GradcamClassify(conf) ==
    IF conf > PNEUMONIA_THRESHOLD
    THEN [prediction_result |-> "Pneumonia", confidence |-> conf * Percent]
    ELSE [prediction_result |-> "Normal", confidence |-> (One - conf) * Percent]

\* api.py analyze_prediction
analyze_prediction(conf) ==
    IF conf > API_THRESHOLD
    THEN [prediction_result |-> "Pneumonia", confidence_score |-> conf * Percent,
          raw_prediction |-> conf, model_threshold |-> API_THRESHOLD]
    ELSE [prediction_result |-> "Normal", confidence_score |-> (One - conf) * Percent,
          raw_prediction |-> conf, model_threshold |-> API_THRESHOLD]

\* variant of get_dynamic_threshold: the boundaries fall in the lower bracket
get_dynamic_threshold_LowerBracket(confidence_score) ==
    IF confidence_score <= 20 THEN PNEUMONIA_THRESHOLD_CONSERVATIVE
    ELSE IF confidence_score <= 40 THEN PNEUMONIA_THRESHOLD_CONSERVATIVE
    ELSE IF confidence_score <= 70 THEN PNEUMONIA_THRESHOLD_STANDARD
    ELSE PNEUMONIA_THRESHOLD_STRICT

\* variant of get_dynamic_threshold: the top bracket returns the balanced threshold
get_dynamic_threshold_NoStrict(confidence_score) ==
    IF confidence_score < 20 THEN PNEUMONIA_THRESHOLD_CONSERVATIVE
    ELSE IF confidence_score < 40 THEN PNEUMONIA_THRESHOLD_CONSERVATIVE
    ELSE PNEUMONIA_THRESHOLD_STANDARD

\* variant of get_dynamic_threshold: the balanced and strict thresholds are exchanged
get_dynamic_threshold_Exchanged(confidence_score) ==
    IF confidence_score < 20 THEN PNEUMONIA_THRESHOLD_CONSERVATIVE
    ELSE IF confidence_score < 40 THEN PNEUMONIA_THRESHOLD_CONSERVATIVE
    ELSE IF confidence_score < 70 THEN PNEUMONIA_THRESHOLD_STRICT
    ELSE PNEUMONIA_THRESHOLD_STANDARD

\* app.py get_dynamic_threshold
get_dynamic_threshold(confidence_score) ==
    IF confidence_score < 20 THEN PNEUMONIA_THRESHOLD_CONSERVATIVE
    ELSE IF confidence_score < 40 THEN PNEUMONIA_THRESHOLD_CONSERVATIVE
    ELSE IF confidence_score < 70 THEN PNEUMONIA_THRESHOLD_STANDARD
    ELSE PNEUMONIA_THRESHOLD_STRICT

\* app.py THRESHOLD_OPTIONS: the selectable modes; a fixed mode maps to its
\* threshold <<t>>, "Dynamic" maps to the marker "dynamic"
THRESHOLD_OPTIONS ==
    [mode \in {"Conservative (0.3)", "Balanced (0.4)", "Strict (0.5)", "Dynamic"} |->
        CASE mode = "Conservative (0.3)" -> Some(PNEUMONIA_THRESHOLD_CONSERVATIVE)
          [] mode = "Balanced (0.4)" -> Some(PNEUMONIA_THRESHOLD_STANDARD)
          [] mode = "Strict (0.5)" -> Some(PNEUMONIA_THRESHOLD_STRICT)
          [] mode = "Dynamic" -> <<"dynamic">>]

(***************************************************************************)
(* Clinical annotation: app.py get_prediction_analysis.  Its confidence    *)
(* argument is a fraction with denominator One.                            *)
(***************************************************************************)

\* result == "Normal" and confidence < 0.8
LowConfidenceNormal(conf, result) == result = "Normal" /\ conf < 80

\* result == "Pneumonia" and confidence < 0.7
UncertainPneumonia(conf, result) == result = "Pneumonia" /\ conf < 70

\* variant of Borderline: the bounds are inclusive
Borderline_Inclusive(conf) == 35 <= conf /\ conf <= 65

\* variant of Borderline: the range is narrower than the false-negative range
Borderline_Narrow(conf) == 45 < conf /\ conf < 55

\* 0.35 < confidence < 0.65
Borderline(conf) == 35 < conf /\ conf < 65

\* result == "Normal" and 0.4 < confidence < 0.6
FalseNegativeRisk(conf, result) == result = "Normal" /\ 40 < conf /\ conf < 60

\* variant of RiskAssessment: the bracket bounds are inclusive
RiskAssessment_Inclusive(conf, result) ==
    IF result = "Pneumonia"
    THEN IF conf >= 80 THEN [risk_level |-> "High Confidence", risk_color |-> "red"]
         ELSE IF conf >= 60
              THEN [risk_level |-> "Moderate Confidence", risk_color |-> "yellow"]
              ELSE [risk_level |-> "Low Confidence", risk_color |-> "orange"]
    ELSE IF conf >= 80 THEN [risk_level |-> "High Confidence", risk_color |-> "green"]
         ELSE IF conf >= 60
              THEN [risk_level |-> "Moderate Confidence", risk_color |-> "yellow"]
              ELSE [risk_level |-> "Low Confidence - Review Needed",
                    risk_color |-> "orange"]

\* the risk assessment: level and indicator colour
RiskAssessment(conf, result) ==
    IF result = "Pneumonia"
    THEN IF conf > 80 THEN [risk_level |-> "High Confidence", risk_color |-> "red"]
         ELSE IF conf > 60
              THEN [risk_level |-> "Moderate Confidence", risk_color |-> "yellow"]
              ELSE [risk_level |-> "Low Confidence", risk_color |-> "orange"]
    ELSE IF conf > 80 THEN [risk_level |-> "High Confidence", risk_color |-> "green"]
         ELSE IF conf > 60
              THEN [risk_level |-> "Moderate Confidence", risk_color |-> "yellow"]
              ELSE [risk_level |-> "Low Confidence - Review Needed",
                    risk_color |-> "orange"]

\* variant of get_prediction_analysis: the recommendation of the borderline
\* rule is appended before that of the label rules
get_prediction_analysis_Unpaired(conf, result) ==
    LET w1 == IF LowConfidenceNormal(conf, result)
              THEN <<"Low Confidence Normal">> ELSE <<>>
        r1 == IF LowConfidenceNormal(conf, result)
              THEN <<"Recommend clinical correlation with symptoms">> ELSE <<>>
        w2 == IF UncertainPneumonia(conf, result)
              THEN <<"Uncertain Pneumonia">> ELSE <<>>
        r2 == IF UncertainPneumonia(conf, result)
              THEN <<"Suggest radiologist review for confirmation">> ELSE <<>>
        w3 == IF Borderline(conf)
              THEN <<"Borderline Case">> ELSE <<>>
        r3 == IF Borderline(conf)
              THEN <<"Consider additional imaging or clinical assessment">> ELSE <<>>
        w4 == IF FalseNegativeRisk(conf, result)
              THEN <<"Potential False Negative Risk">> ELSE <<>>
        r4 == IF FalseNegativeRisk(conf, result)
              THEN <<"Do not rule out pneumonia based on AI alone">> ELSE <<>>
    IN  [warnings |-> w1 \o w2 \o w3 \o w4,
         recommendations |-> r3 \o r1 \o r2 \o r4,
         risk_level |-> RiskAssessment(conf, result).risk_level,
         risk_color |-> RiskAssessment(conf, result).risk_color]

\* the four rules in source order, each appending one warning and one
\* recommendation, then the risk assessment
get_prediction_analysis(conf, result) ==
    LET w1 == IF LowConfidenceNormal(conf, result)
              THEN <<"Low Confidence Normal">> ELSE <<>>
        r1 == IF LowConfidenceNormal(conf, result)
              THEN <<"Recommend clinical correlation with symptoms">> ELSE <<>>
        w2 == IF UncertainPneumonia(conf, result)
              THEN <<"Uncertain Pneumonia">> ELSE <<>>
        r2 == IF UncertainPneumonia(conf, result)
              THEN <<"Suggest radiologist review for confirmation">> ELSE <<>>
        w3 == IF Borderline(conf)
              THEN <<"Borderline Case">> ELSE <<>>
        r3 == IF Borderline(conf)
              THEN <<"Consider additional imaging or clinical assessment">> ELSE <<>>
        w4 == IF FalseNegativeRisk(conf, result)
              THEN <<"Potential False Negative Risk">> ELSE <<>>
        r4 == IF FalseNegativeRisk(conf, result)
              THEN <<"Do not rule out pneumonia based on AI alone">> ELSE <<>>
    IN  [warnings |-> w1 \o w2 \o w3 \o w4,
         recommendations |-> r1 \o r2 \o r3 \o r4,
         risk_level |-> RiskAssessment(conf, result).risk_level,
         risk_color |-> RiskAssessment(conf, result).risk_color]

(***************************************************************************)
(* Grad-CAM helpers.                                                       *)
(***************************************************************************)

\* isinstance(layer, tf.keras.layers.Conv2D)
IsConv2D(kind) == kind = "Conv2D"

\* variant of FindLastConv: keeps the first Conv2D layer it meets
RECURSIVE FindLastConv_First(_, _, _)
FindLastConv_First(ls, i, last) ==
    IF i >= Len(ls) THEN last
    ELSE FindLastConv_First(ls, i + 1,
            IF IsConv2D(ls[i + 1]) /\ last = None THEN Some(i) ELSE last)

\* Step 2, the loop: walks the layers in order from 0-based index i and
\* overwrites the recorded index at every Conv2D layer
RECURSIVE FindLastConv(_, _, _)
FindLastConv(ls, i, last) ==
    IF i >= Len(ls) THEN last
    ELSE FindLastConv(ls, i + 1, IF IsConv2D(ls[i + 1]) THEN Some(i) ELSE last)

\* Step 2, the test "last_conv_layer_name is None"
NoConvFound(last) == last = None

\* variant of LayerTypes: the enumeration stops one layer early
LayerTypes_OffByOne(ls) == [j \in 1..(Len(ls) - 1) |-> <<j - 1, ls[j]>>]

\* Step 2, layer_types: one entry "i: kind" per layer of the model
LayerTypes(ls) == [j \in 1..Len(ls) |-> <<j - 1, ls[j]>>]

\* the except clause: every exception leaves as RuntimeError chained to its cause
WrapException(e) ==
    [type |-> "RuntimeError", message |-> "Grad-CAM computation failed", cause |-> e]

\* variant of BuildGradModel: the second loop starts at the tap layer itself
BuildGradModel_TapTwice(ls, k) ==
    LET head == [j \in 1..(k + 1) |-> j - 1]
        tail == [j \in 1..(Len(ls) - k) |-> k + j - 1]
    IN  [head |-> head,
         tail |-> tail,
         conv_output |-> head[Len(head)],
         final_output |-> IF tail = <<>> THEN head[Len(head)] ELSE tail[Len(tail)]]

\* Step 3: x is passed through layers 0..k (first loop), conv_output is x
\* there; x is passed on through layers k+1..n-1 (second loop), final_output
\* is x there.  head and tail list the layers applied by each loop, and an
\* output is named by the index of the layer that produced it.
BuildGradModel(ls, k) ==
    LET head == [j \in 1..(k + 1) |-> j - 1]
        tail == [j \in 1..(Len(ls) - k - 1) |-> k + j]
    IN  [head |-> head,
         tail |-> tail,
         conv_output |-> head[Len(head)],
         final_output |-> IF tail = <<>> THEN head[Len(head)] ELSE tail[Len(tail)]]

\* variant of Relu: negative values are kept
Relu_Identity(m) == [j \in DOMAIN m |-> m[j]]

\* Step 8: tf.maximum(heatmap, 0)
Relu(m) == [j \in DOMAIN m |-> IF m[j] > 0 THEN m[j] ELSE 0]

\* Step 8: tf.reduce_max
RECURSIVE reduce_max(_)
reduce_max(m) ==
    IF Len(m) = 1 THEN m[1]
    ELSE LET rest == reduce_max(Tail(m)) IN IF m[1] > rest THEN m[1] ELSE rest

\* variant of IsDegenerate: only a negative maximum is rejected
IsDegenerate_Negative(mx) == mx < 0

\* Step 8, the test "max_heat == 0"
IsDegenerate(mx) == mx = 0

\* Step 8: heatmap / max_heat; a cell is the fraction num[j] / den
Divide(m, mx) == [num |-> m, den |-> mx]

(***************************************************************************)
(* Rendering helpers.                                                      *)
(***************************************************************************)

\* cvRound of the fraction n / d, d > 0, n >= 0: nearest integer, ties to even
cvRound(n, d) ==
    LET q == n \div d
        r == n % d
    IN  IF 2 * r < d THEN q
        ELSE IF 2 * r > d THEN q + 1
        ELSE IF q % 2 = 0 THEN q ELSE q + 1

\* saturate_cast<uchar>
saturate(x) == IF x < 0 THEN 0 ELSE IF x > MaxPixel THEN MaxPixel ELSE x

\* variant of addWeighted: the two weights are exchanged
addWeighted_Swapped(src1, src2, a) ==
    saturate(cvRound(src1 * a + src2 * (One - a), One))

\* cv2.addWeighted(src1, 1-alpha, src2, alpha, 0) on one 8-bit channel value
addWeighted(src1, src2, a) ==
    saturate(cvRound(src1 * (One - a) + src2 * a, One))

(***************************************************************************)
(* The shapes of Steps 7 and 9-12: a shape is the sequence of the           *)
(* dimensions of an array.                                                 *)
(***************************************************************************)

ChannelCounts == {1, 3, 4}

\* shapes of img_array: (1, H, W, C) or (1, H, W)
ImageShapes ==
    {<<1, h, w, c>> : h \in 1..MaxDim, w \in 1..MaxDim, c \in ChannelCounts}
        \cup {<<1, h, w>> : h \in 1..MaxDim, w \in 1..MaxDim}

\* spatial shapes (h, w) of the tap layer's output
TapShapes == {<<h, w>> : h \in 1..MaxDim, w \in 1..MaxDim}

\* Step 7: tf.squeeze removes every dimension of size 1 from (h, w, 1)
Squeeze(shape) == SelectSeq(shape, LAMBDA dim : dim # 1)

\* Step 9: img_array[0], converted to three channels when it has one or none
OriginalShape(img_shape) ==
    LET o == Tail(img_shape) IN
    IF Len(o) = 3 /\ o[3] = 1 THEN <<o[1], o[2], 3>>
    ELSE IF Len(o) = 2 THEN <<o[1], o[2], 3>>
    ELSE o

\* variant of TargetSize: (shape[0], shape[1]), height first
TargetSize_HeightFirst(shape) == <<shape[1], shape[2]>>

\* Step 10: target_size = (original_img.shape[1], original_img.shape[0])
TargetSize(shape) == <<shape[2], shape[1]>>

\* cv2.resize(src, dsize): dsize is (width, height), the result has
\* height rows and width columns
Resize(dsize) == <<dsize[2], dsize[1]>>

\* cv2.applyColorMap: three channels per cell
ApplyColorMap(shape) == shape \o <<3>>

\* Steps 10-12 on shapes: the overlay, or the OpenCV error of blending
\* arrays of different shapes
RenderShape(img_shape, tap_shape) ==
    LET original == OriginalShape(img_shape)
        resized == Resize(TargetSize(original))
        colored == ApplyColorMap(resized)
    IN  IF original = colored
        THEN [status |-> "ok", height |-> original[1], width |-> original[2],
              channels |-> original[3]]
        ELSE [status |-> "error", height |-> 0, width |-> 0, channels |-> 0]

(***************************************************************************)
(* The dashboard call: main -> generate_gradcam_with_prediction.           *)
(***************************************************************************)

PipePixels == {0, MaxPixel}

PipeInit ==
    /\ pc = "idle"
    /\ alpha = None
    /\ confidence = None
    /\ prediction_result = None
    /\ confidence_percent = None
    /\ last_conv_layer_index = None
    /\ grad_model = None
    /\ grads = None
    /\ heatmap = None
    /\ max_heat = None
    /\ superimposed_img = None
    /\ ret = None
    /\ exc = None
    /\ current_prediction = None

\* no policy function is being applied
PolicyInit == fn = "none" /\ arg = 0 /\ arg_result = "Normal" /\ out = None

\* no blend is being computed
RenderInit == r_in = None /\ r_out = None

\* no overlay shape is being computed
ShapeInit == sh_in = None /\ sh_out = None

\* no request is being handled and the database is empty
ApiInit ==
    /\ api_pc = "idle"
    /\ api_req = None
    /\ api_analysis = None
    /\ prediction_id = None
    /\ email_result = None
    /\ api_resp = None
    /\ db_predictions = <<>>
    /\ db_images = <<>>

\* the calls of the pipeline that may run in parallel threads
Calls == {1, 2, 3}

\* no concurrent call has been made
ConcInit ==
    /\ c_pc = [i \in Calls |-> "idle"]
    /\ c_in = [i \in Calls |-> None]
    /\ c_out = [i \in Calls |-> None]
    /\ frames = [k \in Calls |-> None]

\* the threads that may call get_database at the same time
Callers == {1, 2, 3}

\* the module is imported, db_instance = None, and no thread is in get_database
DbInit ==
    /\ db_instance = None
    /\ g_pc = [t \in Callers |-> "idle"]
    /\ g_new = [t \in Callers |-> None]
    /\ g_ret = [t \in Callers |-> None]
    /\ constructed = 0

\* an EmailSender no method of which has been called
EmailInit ==
    /\ mongodb_available = FALSE
    /\ mongodb_collection = <<>>
    /\ fallback_reports = <<>>
    /\ e_op = "none"
    /\ e_arg = None
    /\ e_ret = None
    /\ e_n = 0
    /\ log_calls = 0
    /\ logged = 0

Init ==
    /\ layers \in LayerSeqs
    /\ PipeInit
    /\ PolicyInit
    /\ RenderInit
    /\ ShapeInit
    /\ ApiInit
    /\ ConcInit
    /\ DbInit
    /\ EmailInit

\* an exception raised inside the try block: caught by "except Exception" and
\* re-raised wrapped; nothing is returned
Raise(e) ==
    /\ pc' = "raised"
    /\ exc' = Some(WrapException(e))
    /\ ret' = None

\* main: the Analyze button; the call passes model and image, alpha defaults
Analyze ==
    /\ pc = "idle"
    /\ pc' = "predict"
    /\ alpha' = Some(DEFAULT_ALPHA)
    /\ UNCHANGED <<layers, confidence, prediction_result, confidence_percent,
                   last_conv_layer_index, grad_model, grads, heatmap, max_heat,
                   superimposed_img, ret, exc, current_prediction>>
    /\ UNCHANGED pipeOthers

\* Step 1: model.predict and the threshold rule
Predict ==
    /\ pc = "predict"
    /\ \E s \in Scores :
          /\ confidence' = Some(s)
          /\ prediction_result' = Some(GradcamClassify(s).prediction_result)
          /\ confidence_percent' = Some(GradcamClassify(s).confidence)
    /\ pc' = "find_conv"
    /\ UNCHANGED <<layers, alpha, last_conv_layer_index, grad_model, grads,
                   heatmap, max_heat, superimposed_img, ret, exc,
                   current_prediction>>
    /\ UNCHANGED pipeOthers

\* Step 1: model.predict rejects the tensor
PredictFails ==
    /\ pc = "predict"
    /\ Raise([type |-> "ValueError", message |-> "incompatible input shape"])
    /\ UNCHANGED <<layers, alpha, confidence, prediction_result,
                   confidence_percent, last_conv_layer_index, grad_model, grads,
                   heatmap, max_heat, superimposed_img, current_prediction>>
    /\ UNCHANGED pipeOthers

\* Step 2: find the last convolutional layer, or raise ValueError
FindConv ==
    /\ pc = "find_conv"
    /\ LET last == FindLastConv(layers, 0, None) IN
          /\ last_conv_layer_index' = last
          /\ IF NoConvFound(last)
             THEN Raise([type |-> "ValueError",
                         message |-> "No Conv2D layer found in model",
                         layer_types |-> LayerTypes(layers)])
             ELSE pc' = "build_grad_model" /\ UNCHANGED <<exc, ret>>
    /\ UNCHANGED <<layers, alpha, confidence, prediction_result,
                   confidence_percent, grad_model, grads, heatmap, max_heat,
                   superimposed_img, current_prediction>>
    /\ UNCHANGED pipeOthers

\* Step 3: rebuild the layers into the two-output grad model
BuildModel ==
    /\ pc = "build_grad_model"
    /\ grad_model' = Some(BuildGradModel(layers, last_conv_layer_index[1]))
    /\ pc' = "gradients"
    /\ UNCHANGED <<layers, alpha, confidence, prediction_result,
                   confidence_percent, last_conv_layer_index, grads, heatmap,
                   max_heat, superimposed_img, ret, exc, current_prediction>>
    /\ UNCHANGED pipeOthers

\* Steps 4-5: the tape yields a gradient tensor or None
Gradients ==
    /\ pc = "gradients"
    /\ \E g \in {None, Some("tensor")} :
          /\ grads' = g
          /\ IF g = None
             THEN Raise([type |-> "RuntimeError",
                         message |-> "Failed to compute gradients for Grad-CAM"])
             ELSE pc' = "heatmap" /\ UNCHANGED <<exc, ret>>
    /\ UNCHANGED <<layers, alpha, confidence, prediction_result,
                   confidence_percent, last_conv_layer_index, grad_model,
                   heatmap, max_heat, superimposed_img, current_prediction>>
    /\ UNCHANGED pipeOthers

\* Steps 6-8: the channel-weighted sum (any raw map), clipped at zero, and its maximum
Heatmap ==
    /\ pc = "heatmap"
    /\ \E raw \in RawMaps :
          /\ heatmap' = Some([num |-> Relu(raw), den |-> 1])
          /\ max_heat' = Some(reduce_max(Relu(raw)))
    /\ pc' = "normalize"
    /\ UNCHANGED <<layers, alpha, confidence, prediction_result,
                   confidence_percent, last_conv_layer_index, grad_model, grads,
                   superimposed_img, ret, exc, current_prediction>>
    /\ UNCHANGED pipeOthers

\* Step 8: raise on an all-zero map, otherwise divide by the maximum
Normalize ==
    /\ pc = "normalize"
    /\ IF IsDegenerate(max_heat[1])
       THEN /\ Raise([type |-> "RuntimeError",
                      message |-> "Heatmap contains only zeros"])
            /\ UNCHANGED heatmap
       ELSE /\ heatmap' = Some(Divide(heatmap[1].num, max_heat[1]))
            /\ pc' = "render"
            /\ UNCHANGED <<exc, ret>>
    /\ UNCHANGED <<layers, alpha, confidence, prediction_result,
                   confidence_percent, last_conv_layer_index, grad_model, grads,
                   max_heat, superimposed_img, current_prediction>>
    /\ UNCHANGED pipeOthers

\* Steps 9-12 and the return: blend a pixel of the original with the
\* colorized map and return the result dict
Render ==
    /\ pc = "render"
    /\ \E original \in PipePixels, colored \in PipePixels :
          LET px == addWeighted(original, colored, alpha[1]) IN
          /\ superimposed_img' = Some(px)
          /\ ret' = Some([prediction_result |-> prediction_result[1],
                          confidence |-> confidence_percent[1],
                          gradcam_heatmap |-> px])
    /\ pc' = "returned"
    /\ UNCHANGED <<layers, alpha, confidence, prediction_result,
                   confidence_percent, last_conv_layer_index, grad_model, grads,
                   heatmap, max_heat, exc, current_prediction>>
    /\ UNCHANGED pipeOthers

\* Steps 9-12: OpenCV or PIL raises
RenderFails ==
    /\ pc = "render"
    /\ Raise([type |-> "cv2.error", message |-> "rendering failed"])
    /\ UNCHANGED <<layers, alpha, confidence, prediction_result,
                   confidence_percent, last_conv_layer_index, grad_model, grads,
                   heatmap, max_heat, superimposed_img, current_prediction>>
    /\ UNCHANGED pipeOthers

\* main after the call returned: store the result for display
MainReceive ==
    /\ pc = "returned"
    /\ current_prediction' =
          Some([result |-> ret[1].prediction_result,
                confidence |-> ret[1].confidence,
                gradcam_base64 |-> ret[1].gradcam_heatmap,
                analysis |-> get_prediction_analysis(ret[1].confidence \div 100,
                                                     ret[1].prediction_result)])
    /\ pc' = "displayed"
    /\ UNCHANGED <<layers, alpha, confidence, prediction_result,
                   confidence_percent, last_conv_layer_index, grad_model, grads,
                   heatmap, max_heat, superimposed_img, ret, exc>>
    /\ UNCHANGED pipeOthers

\* main when the call raised: no handler, the exception leaves main and
\* nothing of the call is stored
MainPropagate ==
    /\ pc = "raised"
    /\ pc' = "failed"
    /\ UNCHANGED <<layers, alpha, confidence, prediction_result,
                   confidence_percent, last_conv_layer_index, grad_model, grads,
                   heatmap, max_heat, superimposed_img, ret, exc,
                   current_prediction>>
    /\ UNCHANGED pipeOthers

Next ==
    \/ Analyze
    \/ Predict
    \/ PredictFails
    \/ FindConv
    \/ BuildModel
    \/ Gradients
    \/ Heatmap
    \/ Normalize
    \/ Render
    \/ RenderFails
    \/ MainReceive
    \/ MainPropagate

Spec == Init /\ [][Next]_vars

(***************************************************************************)
(* The threshold-policy functions applied to every raw score.              *)
(***************************************************************************)

InitPolicy ==
    /\ layers = <<"Conv2D", "Dense">>
    /\ PipeInit
    /\ fn = "none" /\ arg \in Scores /\ arg_result \in Labels /\ out = None
    /\ RenderInit
    /\ ShapeInit
    /\ ApiInit
    /\ ConcInit
    /\ DbInit
    /\ EmailInit

CallGradcamClassify ==
    /\ fn = "none"
    /\ fn' = "GradcamClassify"
    /\ out' = Some(GradcamClassify(arg))
    /\ UNCHANGED <<arg, arg_result, policyOthers>>

CallAnalyzePrediction ==
    /\ fn = "none"
    /\ fn' = "analyze_prediction"
    /\ out' = Some(analyze_prediction(arg))
    /\ UNCHANGED <<arg, arg_result, policyOthers>>

CallGetDynamicThreshold ==
    /\ fn = "none"
    /\ fn' = "get_dynamic_threshold"
    /\ out' = Some(get_dynamic_threshold(arg))
    /\ UNCHANGED <<arg, arg_result, policyOthers>>

CallGetPredictionAnalysis ==
    /\ fn = "none"
    /\ fn' = "get_prediction_analysis"
    /\ out' = Some(get_prediction_analysis(arg, arg_result))
    /\ UNCHANGED <<arg, arg_result, policyOthers>>

NextPolicy ==
    \/ CallGradcamClassify
    \/ CallAnalyzePrediction
    \/ CallGetDynamicThreshold
    \/ CallGetPredictionAnalysis

SpecPolicy == InitPolicy /\ [][NextPolicy]_vars

(***************************************************************************)
(* The blend of the renderer applied to sampled pixels and every alpha.    *)
(***************************************************************************)

InitRender ==
    /\ layers = <<"Conv2D", "Dense">>
    /\ PipeInit
    /\ PolicyInit
    /\ r_in \in {Some(x) : x \in [original : Pixels, colored : Pixels, alpha : 0..One]}
    /\ r_out = None
    /\ ShapeInit
    /\ ApiInit
    /\ ConcInit
    /\ DbInit
    /\ EmailInit

Blend ==
    /\ r_out = None
    /\ r_out' = Some(addWeighted(r_in[1].original, r_in[1].colored, r_in[1].alpha))
    /\ UNCHANGED <<r_in, renderOthers>>

NextRender == Blend

SpecRender == InitRender /\ [][NextRender]_vars

(***************************************************************************)
(* The shape of the rendered overlay for every image and tap shape.        *)
(***************************************************************************)

InitShape ==
    /\ layers = <<"Conv2D", "Dense">>
    /\ PipeInit
    /\ PolicyInit
    /\ RenderInit
    /\ sh_in \in {Some(x) : x \in [img : ImageShapes, tap : TapShapes]}
    /\ sh_out = None
    /\ ApiInit
    /\ ConcInit
    /\ DbInit
    /\ EmailInit

\* Steps 7-12 with a map cv2.resize accepts
RenderOverlay ==
    /\ sh_out = None
    /\ sh_out' = Some(RenderShape(sh_in[1].img, Squeeze(sh_in[1].tap \o <<1>>)))
    /\ UNCHANGED <<sh_in, shapeOthers>>

\* Steps 7-10 with a 1x1 tap output: the squeezed map has no dimension left
\* and cv2.resize may reject it
ResizeRejects ==
    /\ sh_out = None
    /\ Squeeze(sh_in[1].tap \o <<1>>) = <<>>
    /\ sh_out' = Some([status |-> "error", height |-> 0, width |-> 0, channels |-> 0])
    /\ UNCHANGED <<sh_in, shapeOthers>>

NextShape ==
    \/ RenderOverlay
    \/ ResizeRejects

SpecShape == InitShape /\ [][NextShape]_vars

(***************************************************************************)
(* POST /predict: api.py predict_pneumonia, one request.                   *)
(***************************************************************************)

\* the request: is the model loaded, does the upload declare an image
\* content type, can its bytes be decoded and resized, and the notification
\* form fields (an address is present or not)
Requests ==
    [model_loaded : BOOLEAN, is_image : BOOLEAN, decodable : BOOLEAN,
     send_notification : BOOLEAN, sender_email : BOOLEAN,
     recipient_email : BOOLEAN]

HTTPException(status_code, detail) == [status_code |-> status_code, detail |-> detail]

\* the handler's "except Exception": whatever was raised inside the try
\* block, an HTTPException included, is answered with 500
PredictionFailed(e) ==
    [status_code |-> 500, detail |-> "Prediction failed", cause |-> e]

\* raise HTTPException outside the try block: it is the response
Reject(e) ==
    /\ api_resp' = Some(e)
    /\ api_pc' = "done"

\* an exception raised inside the try block
Fail(e) ==
    /\ api_resp' = Some(PredictionFailed(e))
    /\ api_pc' = "done"

InitApi ==
    /\ layers = <<"Conv2D", "Dense">>
    /\ PipeInit
    /\ PolicyInit
    /\ RenderInit
    /\ ShapeInit
    /\ api_pc = "start"
    /\ api_req \in {Some(q) : q \in Requests}
    /\ api_analysis = None
    /\ prediction_id = None
    /\ email_result = None
    /\ api_resp = None
    /\ db_predictions = <<>>
    /\ db_images = <<>>
    /\ ConcInit
    /\ DbInit
    /\ EmailInit

\* the two checks before the try block
CheckRequest ==
    /\ api_pc = "start"
    /\ IF ~api_req[1].model_loaded
       THEN Reject(HTTPException(503, "Model not available"))
       ELSE IF ~api_req[1].is_image
            THEN Reject(HTTPException(400, "File must be an image"))
            ELSE api_pc' = "preprocess" /\ UNCHANGED api_resp
    /\ UNCHANGED <<api_req, api_analysis, prediction_id, email_result,
                   db_predictions, db_images, apiOthers>>

\* file.read and preprocess_image, which raises HTTPException(400) itself
Preprocess ==
    /\ api_pc = "preprocess"
    /\ IF api_req[1].decodable
       THEN api_pc' = "predict" /\ UNCHANGED api_resp
       ELSE Fail(HTTPException(400, "Image preprocessing failed"))
    /\ UNCHANGED <<api_req, api_analysis, prediction_id, email_result,
                   db_predictions, db_images, apiOthers>>

\* model.predict and analyze_prediction
ApiPredict ==
    /\ api_pc = "predict"
    /\ \E s \in Scores : api_analysis' = Some(analyze_prediction(s))
    /\ api_pc' = "save_prediction"
    /\ UNCHANGED <<api_req, prediction_id, email_result, api_resp,
                   db_predictions, db_images, apiOthers>>

\* model.predict raises
ApiPredictFails ==
    /\ api_pc = "predict"
    /\ Fail([type |-> "Exception", detail |-> "predict failed"])
    /\ UNCHANGED <<api_req, api_analysis, prediction_id, email_result,
                   db_predictions, db_images, apiOthers>>

\* db.save_prediction: insert_one stores the document or raises
SavePrediction ==
    /\ api_pc = "save_prediction"
    /\ \E inserted \in BOOLEAN :
          IF inserted
          THEN /\ db_predictions' =
                     Append(db_predictions,
                            [id |-> Len(db_predictions) + 1,
                             prediction_result |-> api_analysis[1].prediction_result,
                             confidence_score |-> api_analysis[1].confidence_score])
               /\ prediction_id' = Some(Len(db_predictions) + 1)
               /\ api_pc' = "save_image"
               /\ UNCHANGED api_resp
          ELSE /\ Fail([type |-> "PyMongoError", detail |-> "insert_one failed"])
               /\ UNCHANGED <<db_predictions, prediction_id>>
    /\ UNCHANGED <<api_req, api_analysis, email_result, db_images, apiOthers>>

\* db.save_image: fs.put stores the file or raises
SaveImage ==
    /\ api_pc = "save_image"
    /\ \E put \in BOOLEAN :
          IF put
          THEN /\ db_images' = Append(db_images, [prediction_id |-> prediction_id[1]])
               /\ api_pc' = "email"
               /\ UNCHANGED api_resp
          ELSE /\ Fail([type |-> "PyMongoError", detail |-> "fs.put failed"])
               /\ UNCHANGED db_images
    /\ UNCHANGED <<api_req, api_analysis, prediction_id, email_result,
                   db_predictions, apiOthers>>

\* variant of EmailRequested: the flag alone starts the notification
EmailRequested_FlagOnly(q) == q.send_notification

\* if send_notification and sender_email and recipient_email
EmailRequested(q) == q.send_notification /\ q.sender_email /\ q.recipient_email

\* the optional notification: send_email returns a result, or something in
\* the block raises and the inner handler builds a failure result
Notify ==
    /\ api_pc = "email"
    /\ IF EmailRequested(api_req[1])
       THEN \E outcome \in {"sent", "not sent", "raised"} :
               email_result' =
                   CASE outcome = "sent" -> Some([success |-> TRUE, error |-> "none"])
                     [] outcome = "not sent" ->
                            Some([success |-> FALSE, error |-> "send_email failed"])
                     [] outcome = "raised" ->
                            Some([success |-> FALSE,
                                  error |-> "Email notification failed"])
       ELSE email_result' = None
    /\ api_pc' = "respond"
    /\ UNCHANGED <<api_req, api_analysis, prediction_id, api_resp,
                   db_predictions, db_images, apiOthers>>

\* the PredictionResponse
Respond ==
    /\ api_pc = "respond"
    /\ api_resp' = Some([status_code |-> 200,
                         id |-> prediction_id[1],
                         prediction_result |-> api_analysis[1].prediction_result,
                         confidence_score |-> api_analysis[1].confidence_score,
                         email_notification |-> email_result])
    /\ api_pc' = "done"
    /\ UNCHANGED <<api_req, api_analysis, prediction_id, email_result,
                   db_predictions, db_images, apiOthers>>

NextApi ==
    \/ CheckRequest
    \/ Preprocess
    \/ ApiPredict
    \/ ApiPredictFails
    \/ SavePrediction
    \/ SaveImage
    \/ Notify
    \/ Respond

SpecApi == InitApi /\ [][NextApi]_vars

(***************************************************************************)
(* Calls of generate_gradcam_with_prediction running in parallel threads   *)
(* on the one loaded model.  Every name the function assigns is a local    *)
(* of the call; a step of a call is one step of the function on its own    *)
(* locals.  The evaluation engine answers as a function of the tensor, so  *)
(* an argument carries the engine's answers for it.                        *)
(***************************************************************************)

ConcLayerSeqs == {<<"Dense">>, <<"Conv2D", "Dense">>}

\* img_array (the score and the activation map the model yields for it, and
\* whether the tape yields a gradient) and alpha
ConcInputs ==
    {x \in [score : {PNEUMONIA_THRESHOLD, PNEUMONIA_THRESHOLD + 1},
            raw : {[j \in 1..MapLen |-> 0], [j \in 1..MapLen |-> MaxHeat + 1 - j]},
            grads : {None, Some("tensor")},
            alpha : {DEFAULT_ALPHA, One}] :
        x.grads = None =>
            (x.score = PNEUMONIA_THRESHOLD /\ x.alpha = DEFAULT_ALPHA /\ x.raw[1] = 0)}

\* the locals of a call on entry
NewFrame ==
    [pc |-> "predict", confidence |-> None, prediction_result |-> None,
     confidence_percent |-> None, last_conv_layer_index |-> None,
     grad_model |-> None, grads |-> None, heatmap |-> None, max_heat |-> None,
     superimposed_img |-> None, ret |-> None, exc |-> None]

\* variant of FrameOf: the locals of every call are one set of names
FrameOf_Shared(i) == 1

\* variant of FrameOf: the second and third call use one set of names
FrameOf_Reused(i) == IF i = 1 THEN 1 ELSE 2

\* the locals call i reads and writes: its own
FrameOf(i) == i

\* "except Exception" within the frame f
RaiseIn(f, e) == [f EXCEPT !.pc = "raised", !.exc = Some(WrapException(e)), !.ret = None]

\* one step of the function body on the locals f, for the model ls and the
\* arguments x
StepFrame(ls, x, f) ==
    CASE f.pc = "predict" ->
            [f EXCEPT !.confidence = Some(x.score),
                      !.prediction_result = Some(GradcamClassify(x.score).prediction_result),
                      !.confidence_percent = Some(GradcamClassify(x.score).confidence),
                      !.pc = "find_conv"]
      [] f.pc = "find_conv" ->
            LET last == FindLastConv(ls, 0, None)
                g == [f EXCEPT !.last_conv_layer_index = last]
            IN  IF NoConvFound(last)
                THEN RaiseIn(g, [type |-> "ValueError",
                                 message |-> "No Conv2D layer found in model",
                                 layer_types |-> LayerTypes(ls)])
                ELSE [g EXCEPT !.pc = "build_grad_model"]
      [] f.pc = "build_grad_model" ->
            [f EXCEPT !.grad_model = Some(BuildGradModel(ls, f.last_conv_layer_index[1])),
                      !.pc = "gradients"]
      [] f.pc = "gradients" ->
            LET g == [f EXCEPT !.grads = x.grads]
            IN  IF x.grads = None
                THEN RaiseIn(g, [type |-> "RuntimeError",
                                 message |-> "Failed to compute gradients for Grad-CAM"])
                ELSE [g EXCEPT !.pc = "heatmap"]
      [] f.pc = "heatmap" ->
            [f EXCEPT !.heatmap = Some([num |-> Relu(x.raw), den |-> 1]),
                      !.max_heat = Some(reduce_max(Relu(x.raw))),
                      !.pc = "normalize"]
      [] f.pc = "normalize" ->
            IF IsDegenerate(f.max_heat[1])
            THEN RaiseIn(f, [type |-> "RuntimeError",
                             message |-> "Heatmap contains only zeros"])
            ELSE [f EXCEPT !.heatmap = Some(Divide(f.heatmap[1].num, f.max_heat[1])),
                           !.pc = "render"]
      [] f.pc = "render" ->
            LET hot == (MaxPixel * f.heatmap[1].num[1]) \div f.heatmap[1].den
                px == addWeighted(0, hot, x.alpha)
            IN  [f EXCEPT !.superimposed_img = Some(px),
                          !.ret = Some([prediction_result |-> f.prediction_result[1],
                                        confidence |-> f.confidence_percent[1],
                                        gradcam_heatmap |-> px]),
                          !.pc = "returned"]
      [] OTHER -> f

\* the function has returned or raised
Finished(f) == f.pc \in {"returned", "raised"}

\* what leaves the call
Outcome(f) == [ret |-> f.ret, exc |-> f.exc]

RECURSIVE Run(_, _, _)
Run(ls, x, f) == IF Finished(f) THEN f ELSE Run(ls, x, StepFrame(ls, x, f))

\* the outcome of a call that runs with no other call in the process
RunAlone(ls, x) == Outcome(Run(ls, x, NewFrame))

InitConc ==
    /\ layers \in ConcLayerSeqs
    /\ PipeInit
    /\ PolicyInit
    /\ RenderInit
    /\ ShapeInit
    /\ ApiInit
    /\ c_pc = [i \in Calls |-> "idle"]
    /\ c_in \in [Calls -> ConcInputs]
    /\ c_out = [i \in Calls |-> None]
    /\ frames = [k \in Calls |-> None]
    /\ DbInit
    /\ EmailInit

\* a thread calls the function: its locals come into being
Enter(i) ==
    /\ c_pc[i] = "idle"
    /\ c_pc' = [c_pc EXCEPT ![i] = "running"]
    /\ frames' = [frames EXCEPT ![FrameOf(i)] = Some(NewFrame)]
    /\ UNCHANGED <<c_in, c_out, concOthers>>

\* the thread of call i executes its next step
Step(i) ==
    /\ c_pc[i] = "running"
    /\ frames[FrameOf(i)] # None
    /\ ~Finished(frames[FrameOf(i)][1])
    /\ frames' = [frames EXCEPT
                     ![FrameOf(i)] = Some(StepFrame(layers, c_in[i], frames[FrameOf(i)][1]))]
    /\ UNCHANGED <<c_pc, c_in, c_out, concOthers>>

\* the function returns or raises: the caller has the outcome, the locals
\* are gone
Exit(i) ==
    /\ c_pc[i] = "running"
    /\ frames[FrameOf(i)] # None
    /\ Finished(frames[FrameOf(i)][1])
    /\ c_out' = [c_out EXCEPT ![i] = Some(Outcome(frames[FrameOf(i)][1]))]
    /\ c_pc' = [c_pc EXCEPT ![i] = "exited"]
    /\ frames' = [frames EXCEPT ![FrameOf(i)] = None]
    /\ UNCHANGED <<c_in, concOthers>>

NextConc ==
    \/ \E i \in Calls : Enter(i)
    \/ \E i \in Calls : Step(i)
    \/ \E i \in Calls : Exit(i)

SpecConc == InitConc /\ [][NextConc]_vars

(***************************************************************************)
(* database.py get_database called by concurrent threads (api.py get_db    *)
(* is a synchronous dependency, run in the worker thread pool).  A step is *)
(* one read or write of the module global.                                 *)
(***************************************************************************)

InitDb ==
    /\ layers = <<"Conv2D", "Dense">>
    /\ PipeInit
    /\ PolicyInit
    /\ RenderInit
    /\ ShapeInit
    /\ ApiInit
    /\ ConcInit
    /\ EmailInit
    /\ db_instance = None
    /\ g_pc = [t \in Callers |-> "idle"]
    /\ g_new = [t \in Callers |-> None]
    /\ g_ret = [t \in Callers |-> None]
    /\ constructed = 0

\* if db_instance is None
TestInstance(t) ==
    /\ g_pc[t] = "idle"
    /\ g_pc' = [g_pc EXCEPT ![t] = IF db_instance = None THEN "construct" ELSE "return"]
    /\ UNCHANGED <<db_instance, g_new, g_ret, constructed, dbOthers>>

\* PneumoniaDatabase(): connects to MongoDB and yields a new instance
Construct(t) ==
    /\ g_pc[t] = "construct"
    /\ constructed' = constructed + 1
    /\ g_new' = [g_new EXCEPT ![t] = Some(constructed + 1)]
    /\ g_pc' = [g_pc EXCEPT ![t] = "assign"]
    /\ UNCHANGED <<db_instance, g_ret, dbOthers>>

\* db_instance = <the new instance>
AssignInstance(t) ==
    /\ g_pc[t] = "assign"
    /\ db_instance' = g_new[t]
    /\ g_pc' = [g_pc EXCEPT ![t] = "return"]
    /\ UNCHANGED <<g_new, g_ret, constructed, dbOthers>>

\* return db_instance
ReturnInstance(t) ==
    /\ g_pc[t] = "return"
    /\ g_ret' = [g_ret EXCEPT ![t] = db_instance]
    /\ g_pc' = [g_pc EXCEPT ![t] = "returned"]
    /\ UNCHANGED <<db_instance, g_new, constructed, dbOthers>>

NextDb ==
    \/ \E t \in Callers : TestInstance(t)
    \/ \E t \in Callers : Construct(t)
    \/ \E t \in Callers : AssignInstance(t)
    \/ \E t \in Callers : ReturnInstance(t)

SpecDb == InitDb /\ [][NextDb]_vars

(***************************************************************************)
(* email_utils.py EmailSender: log_report, get_reports_count, send_email   *)
(* and send_email_report on one instance.  A report document is held by    *)
(* its prediction_result.  A message is the sequence of its parts.         *)
(***************************************************************************)

\* variant of log_report: a report stored in MongoDB is also appended to the
\* fallback list
log_report_Both(avail, coll, fb, doc, insert_ok, append_ok) ==
    IF avail /\ insert_ok
    THEN [collection |-> Append(coll, doc), fallback |-> Append(fb, doc),
          result |-> [success |-> TRUE, storage |-> "mongodb"]]
    ELSE IF append_ok
         THEN [collection |-> coll, fallback |-> Append(fb, doc),
               result |-> [success |-> TRUE, storage |-> "fallback"]]
         ELSE [collection |-> coll, fallback |-> fb,
               result |-> [success |-> FALSE, storage |-> "none"]]

\* log_report: insert_one when MongoDB is available, the fallback list when
\* it is not or the insert raised; insert_ok and append_ok say whether
\* insert_one and list.append succeed
log_report(avail, coll, fb, doc, insert_ok, append_ok) ==
    IF avail /\ insert_ok
    THEN [collection |-> Append(coll, doc), fallback |-> fb,
          result |-> [success |-> TRUE, storage |-> "mongodb"]]
    ELSE IF append_ok
         THEN [collection |-> coll, fallback |-> Append(fb, doc),
               result |-> [success |-> TRUE, storage |-> "fallback"]]
         ELSE [collection |-> coll, fallback |-> fb,
               result |-> [success |-> FALSE, storage |-> "none"]]

\* get_reports_count: count_documents when MongoDB is available and
\* answers, otherwise the length of the fallback list
get_reports_count(avail, coll, fb, count_ok) ==
    IF avail /\ count_ok
    THEN [success |-> TRUE, count |-> Len(coll), storage |-> "mongodb"]
    ELSE [success |-> TRUE, count |-> Len(fb), storage |-> "fallback"]

SmtpOutcomes == {"sent", "SMTPAuthenticationError", "SMTPException", "Exception"}

\* send_email: the validations, the password, then the SMTP session
send_email(sender_valid, recipient_valid, has_password, smtp) ==
    IF ~sender_valid
    THEN [success |-> FALSE, error |-> "Invalid sender email format", message |-> <<>>]
    ELSE IF ~recipient_valid
    THEN [success |-> FALSE, error |-> "Invalid recipient email format", message |-> <<>>]
    ELSE IF ~has_password
    THEN [success |-> FALSE, error |-> "No password provided for email authentication",
          message |-> <<>>]
    ELSE CASE smtp = "sent" ->
                [success |-> TRUE, error |-> "none",
                 message |-> <<"Email sent successfully">>]
           [] smtp = "SMTPAuthenticationError" ->
                [success |-> FALSE, error |-> "SMTP authentication failed", message |-> <<>>]
           [] smtp = "SMTPException" ->
                [success |-> FALSE, error |-> "SMTP error", message |-> <<>>]
           [] OTHER ->
                [success |-> FALSE, error |-> "Unexpected error sending email",
                 message |-> <<>>]

\* the arguments of send_email_report and what the environment answers:
\* is SMTP_USER set, are the addresses valid, is SMTP_PASSWORD set, the
\* SMTP session, and the two storage operations
ReportInputs ==
    [smtp_user : BOOLEAN, receiver_valid : BOOLEAN, sender_valid : BOOLEAN,
     has_password : BOOLEAN, smtp : SmtpOutcomes, doc : Labels,
     insert_ok : BOOLEAN, append_ok : BOOLEAN]

\* the result of log_report added to the result of send_email
WithLogging(sent_result, log_result) ==
    [success |-> sent_result.success,
     error |-> sent_result.error,
     logging |-> Some(log_result),
     message |-> sent_result.message \o
                   (IF log_result.success
                    THEN IF log_result.storage = "mongodb"
                         THEN <<"Report logged to MongoDB">>
                         ELSE IF log_result.storage = "fallback"
                              THEN <<"Report logged to fallback storage">>
                              ELSE <<>>
                    ELSE <<"Warning: Report logging failed">>)]

\* a result of send_email_report without logging
NoLogging(coll, fb, success, error, message) ==
    [collection |-> coll, fallback |-> fb, logs |-> <<>>,
     result |-> [success |-> success, error |-> error, logging |-> None,
                 message |-> message]]

\* variant of send_email_report: the report is logged whether or not the
\* email was sent
send_email_report_AlwaysLogs(avail, coll, fb, x) ==
    IF ~x.smtp_user
    THEN NoLogging(coll, fb, FALSE, "SMTP_USER not found in environment variables", <<>>)
    ELSE IF ~x.receiver_valid
    THEN NoLogging(coll, fb, FALSE, "Invalid receiver email format", <<>>)
    ELSE LET sent_result == send_email(x.sender_valid, x.receiver_valid,
                                        x.has_password, x.smtp)
             l == log_report(avail, coll, fb, x.doc, x.insert_ok, x.append_ok)
         IN  [collection |-> l.collection, fallback |-> l.fallback,
              logs |-> <<l.result>>,
              result |-> WithLogging(sent_result, l.result)]

\* send_email_report: SMTP_USER, the receiver address, send_email, and
\* log_report when the email was sent
send_email_report(avail, coll, fb, x) ==
    IF ~x.smtp_user
    THEN NoLogging(coll, fb, FALSE, "SMTP_USER not found in environment variables", <<>>)
    ELSE IF ~x.receiver_valid
    THEN NoLogging(coll, fb, FALSE, "Invalid receiver email format", <<>>)
    ELSE LET sent_result == send_email(x.sender_valid, x.receiver_valid,
                                        x.has_password, x.smtp)
         IN  IF sent_result.success
             THEN LET l == log_report(avail, coll, fb, x.doc, x.insert_ok, x.append_ok)
                  IN  [collection |-> l.collection, fallback |-> l.fallback,
                       logs |-> <<l.result>>,
                       result |-> WithLogging(sent_result, l.result)]
             ELSE NoLogging(coll, fb, sent_result.success, sent_result.error,
                            sent_result.message)

\* number of results with success in a sequence of log_report results
Successes(logs) == Cardinality({i \in 1..Len(logs) : logs[i].success})

\* EmailSender(): _init_mongodb connects or leaves mongodb_available False
InitEmail ==
    /\ layers = <<"Conv2D", "Dense">>
    /\ PipeInit
    /\ PolicyInit
    /\ RenderInit
    /\ ShapeInit
    /\ ApiInit
    /\ ConcInit
    /\ DbInit
    /\ mongodb_available \in BOOLEAN
    /\ mongodb_collection = <<>>
    /\ fallback_reports = <<>>
    /\ e_op = "none"
    /\ e_arg = None
    /\ e_ret = None
    /\ e_n = 0
    /\ log_calls = 0
    /\ logged = 0

LogReport ==
    /\ e_n < MaxOps
    /\ \E doc \in Labels, insert_ok \in BOOLEAN, append_ok \in BOOLEAN :
          LET l == log_report(mongodb_available, mongodb_collection,
                              fallback_reports, doc, insert_ok, append_ok)
          IN  /\ mongodb_collection' = l.collection
              /\ fallback_reports' = l.fallback
              /\ e_ret' = Some(l.result)
              /\ e_arg' = Some([doc |-> doc, insert_ok |-> insert_ok,
                                append_ok |-> append_ok])
              /\ logged' = logged + Successes(<<l.result>>)
    /\ log_calls' = log_calls + 1
    /\ e_op' = "log_report"
    /\ e_n' = e_n + 1
    /\ UNCHANGED <<mongodb_available, emailOthers>>

GetReportsCount ==
    /\ e_n < MaxOps
    /\ \E count_ok \in BOOLEAN :
          /\ e_ret' = Some(get_reports_count(mongodb_available, mongodb_collection,
                                             fallback_reports, count_ok))
          /\ e_arg' = Some([count_ok |-> count_ok])
    /\ e_op' = "get_reports_count"
    /\ e_n' = e_n + 1
    /\ UNCHANGED <<mongodb_available, mongodb_collection, fallback_reports,
                   log_calls, logged, emailOthers>>

SendEmailReport ==
    /\ e_n < MaxOps
    /\ \E x \in ReportInputs :
          LET r == send_email_report(mongodb_available, mongodb_collection,
                                     fallback_reports, x)
          IN  /\ mongodb_collection' = r.collection
              /\ fallback_reports' = r.fallback
              /\ e_ret' = Some(r.result)
              /\ e_arg' = Some(x)
              /\ log_calls' = log_calls + Len(r.logs)
              /\ logged' = logged + Successes(r.logs)
    /\ e_op' = "send_email_report"
    /\ e_n' = e_n + 1
    /\ UNCHANGED <<mongodb_available, emailOthers>>

NextEmail ==
    \/ LogReport
    \/ GetReportsCount
    \/ SendEmailReport

SpecEmail == InitEmail /\ [][NextEmail]_vars

(***************************************************************************)
(* Properties.                                                             *)
(***************************************************************************)

Failed == pc \in {"raised", "failed"}

CauseIs(msg) == exc # None /\ exc[1].cause.message = msg

\* C1: for every raw score s and the threshold t of the entry point (0.4 on
\* the dashboard path, 0.5 on the API path) the label is "Pneumonia" exactly
\* when s > t (s = t is "Normal"), the confidence percentage is s*100 for
\* "Pneumonia" and (1-s)*100 for "Normal", and it lies in [0,100].
C1_ClassificationRule ==
    /\ fn = "GradcamClassify" =>
          LET r == out[1] IN
          /\ r.prediction_result \in {"Pneumonia", "Normal"}
          /\ (r.prediction_result = "Pneumonia") <=> (arg > PNEUMONIA_THRESHOLD)
          /\ r.prediction_result = "Pneumonia" => r.confidence = arg * 100
          /\ r.prediction_result = "Normal" => r.confidence = (One - arg) * 100
          /\ r.confidence >= 0 /\ r.confidence <= 100 * One
    /\ fn = "analyze_prediction" =>
          LET r == out[1] IN
          /\ r.prediction_result \in {"Pneumonia", "Normal"}
          /\ (r.prediction_result = "Pneumonia") <=> (arg > r.model_threshold)
          /\ r.model_threshold = 50
          /\ r.prediction_result = "Pneumonia" => r.confidence_score = arg * 100
          /\ r.prediction_result = "Normal" => r.confidence_score = (One - arg) * 100
          /\ r.confidence_score >= 0 /\ r.confidence_score <= 100 * One

\* C1 witness: the score equal to the dashboard threshold was classified Normal
C1_Witness ==
    /\ fn = "GradcamClassify"
    /\ arg = 40
    /\ out[1].prediction_result = "Normal"
    /\ out[1].confidence = 6000

\* C2: get_dynamic_threshold follows the table: s < 0.20 -> 0.30,
\* 0.20 <= s < 0.40 -> 0.30, 0.40 <= s < 0.70 -> 0.40, s >= 0.70 -> 0.50, the
\* boundaries 0.2, 0.4 and 0.7 taking the upper bracket.
C2_DynamicThresholdTable ==
    fn = "get_dynamic_threshold" =>
        /\ arg < 20 => out[1] = 30
        /\ (20 <= arg /\ arg < 40) => out[1] = 30
        /\ (40 <= arg /\ arg < 70) => out[1] = 40
        /\ arg >= 70 => out[1] = 50
        /\ arg = 20 => out[1] = 30
        /\ arg = 40 => out[1] = 40
        /\ arg = 70 => out[1] = 50

\* C2 witness: the boundary score 0.7 was mapped to the strict threshold
C2_Witness == fn = "get_dynamic_threshold" /\ arg = 70 /\ out[1] = 50

\* C3: the call classifies with the threshold of the selected threshold mode,
\* whichever mode of THRESHOLD_OPTIONS is selected: Positive exactly when
\* s > 0.30 under Conservative, s > 0.40 under Balanced, s > 0.50 under Strict
\* and s > get_dynamic_threshold(s) under Dynamic.
C3_ModeThresholdApplied ==
    \A mode \in DOMAIN THRESHOLD_OPTIONS :
        prediction_result # None =>
            LET s == confidence[1]
                t == IF mode = "Dynamic" THEN get_dynamic_threshold(s)
                     ELSE THRESHOLD_OPTIONS[mode][1]
            IN  (prediction_result[1] = "Pneumonia") <=> (s > t)

\* C4: a score s >= 0.70 falls in the Strict bracket (0.5), exceeds it and is
\* labelled Pneumonia with confidence s*100 (0.82 gives 82.0); a score
\* s < 0.20 falls in the Conservative bracket (0.3), is below it and is
\* labelled Normal with confidence (1-s)*100 (0.10 gives 90.0).
C4_DocumentedCases ==
    confidence # None =>
        LET s == confidence[1] IN
        /\ s >= 70 =>
              /\ get_dynamic_threshold(s) = 50
              /\ s > get_dynamic_threshold(s)
              /\ prediction_result = Some("Pneumonia")
              /\ confidence_percent = Some(s * 100)
        /\ s < 20 =>
              /\ get_dynamic_threshold(s) = 30
              /\ s < get_dynamic_threshold(s)
              /\ prediction_result = Some("Normal")
              /\ confidence_percent = Some((One - s) * 100)
        /\ s = 82 => confidence_percent = Some(8200)
        /\ s = 10 => confidence_percent = Some(9000)

\* C4 witness: the score 0.82 went through the whole call and is displayed
\* as Pneumonia with 82.0 percent
C4_Witness ==
    /\ pc = "displayed"
    /\ confidence = Some(82)
    /\ current_prediction[1].result = "Pneumonia"
    /\ current_prediction[1].confidence = 8200

\* C5: when the Grad-CAM or rendering step fails after the classification
\* step succeeded, the caller still receives the label and the confidence.
C5_ExplanationDecoupled ==
    (Failed /\ prediction_result # None) =>
        /\ ret # None
        /\ ret[1].prediction_result = prediction_result[1]
        /\ ret[1].confidence = confidence_percent[1]

\* C6: on a network without Conv2D layer the Grad-CAM step fails with the
\* missing-convolution-layer error before a gradient model is built or a
\* gradient computed, and the error carries the kinds of all layers, a
\* non-empty list.
C6_MissingConvLayer ==
    (confidence # None /\ pc # "find_conv"
       /\ \A j \in 1..Len(layers) : layers[j] # "Conv2D") =>
        /\ Failed
        /\ CauseIs("No Conv2D layer found in model")
        /\ exc[1].cause.layer_types = [j \in 1..Len(layers) |-> <<j - 1, layers[j]>>]
        /\ Len(exc[1].cause.layer_types) > 0
        /\ grad_model = None
        /\ grads = None

\* C6 witness: the call failed on a network of several layers, none a Conv2D
C6_Witness ==
    /\ pc = "raised"
    /\ CauseIs("No Conv2D layer found in model")
    /\ Len(layers) >= 2

\* C7: when the model has no Conv2D layer the exception that reaches the
\* caller is a ValueError.
C7_ValueErrorReachesCaller ==
    (Failed /\ CauseIs("No Conv2D layer found in model")) =>
        exc[1].type = "ValueError"

\* C8: when the maximum of the clipped map is 0 the step raises the
\* all-zero-heatmap error and the map is never divided; the division is
\* executed only when the maximum is strictly positive.
C8_DegenerateHeatmap ==
    (max_heat # None /\ pc # "normalize") =>
        /\ max_heat[1] = 0 =>
              /\ Failed
              /\ CauseIs("Heatmap contains only zeros")
              /\ heatmap[1].den = 1
        /\ (pc \in {"render", "returned", "displayed"}
              \/ (Failed /\ CauseIs("rendering failed"))) =>
              /\ max_heat[1] > 0
              /\ heatmap[1].den = max_heat[1]

\* C8 witness: an all-zero clipped map made the call fail
C8_Witness ==
    /\ pc = "raised"
    /\ max_heat = Some(0)
    /\ CauseIs("Heatmap contains only zeros")

\* C9: the tapped layer is the last Conv2D layer in layer order: whenever the
\* network has a Conv2D layer the recorded index is the greatest index of a
\* Conv2D layer.
C9_LastConvLayer ==
    /\ (confidence # None /\ pc # "find_conv"
          /\ \E j \in 1..Len(layers) : layers[j] = "Conv2D") =>
            last_conv_layer_index # None
    /\ last_conv_layer_index # None =>
          LET k == last_conv_layer_index[1] IN
          /\ k >= 0 /\ k < Len(layers)
          /\ layers[k + 1] = "Conv2D"
          /\ \A j \in 0..(Len(layers) - 1) : layers[j + 1] = "Conv2D" => j <= k

\* C9 witness: two Conv2D layers followed by another layer, the second tapped
C9_Witness ==
    /\ Len(layers) = 3
    /\ layers[1] = "Conv2D" /\ layers[2] = "Conv2D" /\ layers[3] = "Dense"
    /\ last_conv_layer_index = Some(1)
    /\ grad_model # None

\* C10 as stated: every overlay value is exactly (1-alpha)*original +
\* alpha*colorized.
C10_ExactBlend ==
    r_out # None =>
        One * r_out[1] =
            r_in[1].original * (One - r_in[1].alpha) + r_in[1].colored * r_in[1].alpha

\* C10 amended: alpha = 0 gives the original pixel, alpha = 1 gives the
\* colorized pixel, and in general the overlay value is
\* (1-alpha)*original + alpha*colorized rounded to an 8-bit integer, at most
\* one half away from the exact blend.
C10_RoundedBlend ==
    r_out # None =>
        LET exact == r_in[1].original * (One - r_in[1].alpha)
                        + r_in[1].colored * r_in[1].alpha
            d == One * r_out[1] - exact
        IN  /\ r_in[1].alpha = 0 => r_out[1] = r_in[1].original
            /\ r_in[1].alpha = One => r_out[1] = r_in[1].colored
            /\ 2 * d <= One /\ 2 * d >= 0 - One
            /\ r_out[1] \in 0..255

\* C10 witness: alpha = 0 with different original and colorized pixels
C10_Witness ==
    /\ r_out # None
    /\ r_in[1].alpha = 0
    /\ r_in[1].original = 255
    /\ r_in[1].colored = 0
    /\ r_out[1] = 255

\* C11: get_prediction_analysis evaluates its four warning rules
\* independently: the warnings produced are exactly those whose condition
\* holds - low-confidence normal (Normal and c < 0.8), uncertain pneumonia
\* (Pneumonia and c < 0.7), borderline (0.35 < c < 0.65, either label),
\* false-negative risk (Normal and 0.4 < c < 0.6) - all bounds strict, each
\* at most once, and none when no condition holds.
C11_WarningRules ==
    fn = "get_prediction_analysis" =>
        LET w == out[1].warnings
            count(x) == Cardinality({i \in 1..Len(w) : w[i] = x})
            one(b) == IF b THEN 1 ELSE 0
        IN  /\ count("Low Confidence Normal") =
                  one(arg_result = "Normal" /\ arg < 80)
            /\ count("Uncertain Pneumonia") =
                  one(arg_result = "Pneumonia" /\ arg < 70)
            /\ count("Borderline Case") = one(35 < arg /\ arg < 65)
            /\ count("Potential False Negative Risk") =
                  one(arg_result = "Normal" /\ 40 < arg /\ arg < 60)
            /\ Len(w) = count("Low Confidence Normal") + count("Uncertain Pneumonia")
                          + count("Borderline Case")
                          + count("Potential False Negative Risk")

\* C11 witness: at the borderline bound c = 0.65 a Pneumonia result gets the
\* uncertain-pneumonia warning alone
C11_Witness ==
    /\ fn = "get_prediction_analysis"
    /\ arg = 65
    /\ arg_result = "Pneumonia"
    /\ out[1].warnings = <<"Uncertain Pneumonia">>

\* C12: a Normal result with 0.4 < c < 0.6 (c = 0.5 in particular) carries
\* both the false-negative-risk and the borderline warning; the
\* false-negative-risk warning never appears without the borderline warning.
C12_FalseNegativeWithBorderline ==
    fn = "get_prediction_analysis" =>
        LET w == out[1].warnings
            has(x) == \E i \in 1..Len(w) : w[i] = x
        IN  /\ (arg_result = "Normal" /\ 40 < arg /\ arg < 60) =>
                  (has("Potential False Negative Risk") /\ has("Borderline Case"))
            /\ (arg_result = "Normal" /\ arg = 50) =>
                  (has("Potential False Negative Risk") /\ has("Borderline Case"))
            /\ has("Potential False Negative Risk") => has("Borderline Case")

\* C12 witness: Normal with c = 0.5 carries both warnings
C12_Witness ==
    /\ fn = "get_prediction_analysis"
    /\ arg = 50
    /\ arg_result = "Normal"
    /\ \E i \in 1..Len(out[1].warnings) : out[1].warnings[i] = "Borderline Case"
    /\ \E i \in 1..Len(out[1].warnings) :
          out[1].warnings[i] = "Potential False Negative Risk"

\* C13: the risk level is a total function of (label, c): c > 0.8 gives High,
\* 0.6 < c <= 0.8 Moderate, c <= 0.6 Low for Pneumonia and Low - review
\* needed for Normal; c = 0.8 and c = 0.6 fall in the lower bracket; every
\* input gets one level and one indicator.
C13_RiskLevel ==
    fn = "get_prediction_analysis" =>
        LET a == out[1] IN
        /\ arg > 80 => a.risk_level = "High Confidence"
        /\ (60 < arg /\ arg <= 80) => a.risk_level = "Moderate Confidence"
        /\ (arg <= 60 /\ arg_result = "Pneumonia") => a.risk_level = "Low Confidence"
        /\ (arg <= 60 /\ arg_result = "Normal") =>
              a.risk_level = "Low Confidence - Review Needed"
        /\ arg = 80 => a.risk_level = "Moderate Confidence"
        /\ arg = 60 => a.risk_level \in {"Low Confidence", "Low Confidence - Review Needed"}
        /\ a.risk_level \in {"High Confidence", "Moderate Confidence",
                             "Low Confidence", "Low Confidence - Review Needed"}
        /\ a.risk_color \in {"red", "yellow", "orange", "green"}
        /\ (a.risk_level = "High Confidence") <=> (a.risk_color \in {"red", "green"})
        /\ (a.risk_color = "red") => arg_result = "Pneumonia"
        /\ (a.risk_color = "green") => arg_result = "Normal"

\* C13 witness: Pneumonia with c = 0.8 is Moderate
C13_Witness ==
    /\ fn = "get_prediction_analysis"
    /\ arg = 80
    /\ arg_result = "Pneumonia"
    /\ out[1].risk_level = "Moderate Confidence"
    /\ out[1].risk_color = "yellow"

\* C16: whenever the Grad-CAM step has produced its map, the map is
\* normalized: every entry is >= 0 and <= 1 and at least one entry is
\* exactly 1.
C16_NormalizedMap ==
    (pc \in {"render", "returned", "displayed"}
        \/ (Failed /\ CauseIs("rendering failed"))) =>
        LET h == heatmap[1] IN
        /\ h.den > 0
        /\ \A j \in DOMAIN h.num : h.num[j] >= 0 /\ h.num[j] <= h.den
        /\ \E j \in DOMAIN h.num : h.num[j] = h.den

\* C16 witness: a returned map with a zero entry (a clipped negative or a
\* zero) and an entry strictly between 0 and 1
C16_Witness ==
    /\ pc = "render"
    /\ heatmap[1].den = 2
    /\ \E j \in DOMAIN heatmap[1].num : heatmap[1].num[j] = 1
    /\ \E j \in DOMAIN heatmap[1].num : heatmap[1].num[j] = 2

\* C17: the grad model partitions the layers at the tap index k into the
\* head 0..k and the tail k+1..n-1: every layer is applied exactly once, in
\* order; the tap output is the output of layer k and the final output that
\* of the last layer, also when the tap is the last layer (empty tail).
C17_Partition ==
    grad_model # None =>
        LET g == grad_model[1]
            k == last_conv_layer_index[1]
            n == Len(layers)
        IN  /\ g.head \o g.tail = [j \in 1..n |-> j - 1]
            /\ Len(g.head) = k + 1
            /\ Len(g.tail) = n - 1 - k
            /\ g.conv_output = k
            /\ g.final_output = n - 1
            /\ k = n - 1 => (g.tail = <<>> /\ g.conv_output = g.final_output)

\* C17 witness: the tap is the last of several layers, so the tail is empty
C17_Witness ==
    /\ grad_model # None
    /\ Len(layers) >= 2
    /\ grad_model[1].tail = <<>>
    /\ grad_model[1].conv_output = Len(layers) - 1

\* C19: for every score below 0.70 the dynamic threshold is strictly below
\* Strict (0.50), and every score that Strict labels Positive (s > 0.50) is
\* also labelled Positive by the dynamic threshold.
C19_DynamicBias ==
    fn = "get_dynamic_threshold" =>
        /\ arg < 70 => out[1] < PNEUMONIA_THRESHOLD_STRICT
        /\ arg > PNEUMONIA_THRESHOLD_STRICT => arg > out[1]

\* C19 witness: 0.45 is Normal under Strict but above its dynamic threshold
C19_Witness ==
    /\ fn = "get_dynamic_threshold"
    /\ arg = 45
    /\ out[1] = 40
    /\ ~(arg > PNEUMONIA_THRESHOLD_STRICT)

\* C18: the rendered overlay has the height and the width of the input
\* image, whatever the shape of the tap layer's output; an image of one or
\* three channels is always rendered unless OpenCV rejects the map.
C18_OverlaySize ==
    sh_out # None =>
        LET img == sh_in[1].img
            o == sh_out[1]
        IN  /\ o.status = "ok" => (o.height = img[2] /\ o.width = img[3])
            /\ ((Len(img) = 3 \/ img[4] \in {1, 3}) /\ sh_in[1].tap # <<1, 1>>) =>
                  o.status = "ok"

\* C18 witness: an image that is not square, rendered from a tap output of
\* another shape
C18_Witness ==
    /\ sh_out # None
    /\ sh_out[1].status = "ok"
    /\ sh_in[1].img = <<1, 2, 3, 3>>
    /\ sh_in[1].tap = <<3, 2>>
    /\ sh_out[1].height = 2
    /\ sh_out[1].width = 3


\* C20: when image preprocessing fails in POST /predict the client receives
\* the HTTP 400 response "Image preprocessing failed" raised by
\* preprocess_image, and nothing is written to the database.
C20_PreprocessingFailureIs400 ==
    (api_pc = "done" /\ api_req[1].model_loaded /\ api_req[1].is_image
        /\ ~api_req[1].decodable) =>
        /\ api_resp[1].status_code = 400
        /\ api_resp[1].detail = "Image preprocessing failed"
        /\ db_predictions = <<>>
        /\ db_images = <<>>


C21_EmailNeverFailsPrediction ==
    /\ email_result # None =>
          /\ api_req[1].send_notification
          /\ api_req[1].sender_email
          /\ api_req[1].recipient_email
          /\ Len(db_predictions) = 1
          /\ Len(db_images) = 1
    /\ (api_pc = "done" /\ email_result # None) =>
          /\ api_resp[1].status_code = 200
          /\ api_resp[1].email_notification = email_result
          /\ api_resp[1].id = db_predictions[1].id
          /\ db_images[1].prediction_id = api_resp[1].id
    /\ (api_pc = "done" /\ api_resp[1].status_code = 200
            /\ ~EmailRequested(api_req[1])) =>
          api_resp[1].email_notification = None

\* the email code raised and the request was answered with the prediction
C21_Witness ==
    /\ api_pc = "done"
    /\ email_result # None
    /\ ~email_result[1].success
    /\ email_result[1].error = "Email notification failed"
    /\ api_resp[1].status_code = 200
    /\ ~api_resp[1].email_notification[1].success

\* C25: in dynamic mode the label is monotone in the raw score: when a
\* score is labelled Positive (s > get_dynamic_threshold(s)) every larger
\* score is labelled Positive as well.
C25_DynamicMonotone ==
    (fn = "get_dynamic_threshold" /\ arg > out[1]) =>
        \A s2 \in Scores : s2 >= arg => s2 > get_dynamic_threshold(s2)

\* C26: in the dashboard pipeline every Normal result reaches
\* get_prediction_analysis with c >= 0.6, so neither the false-negative-risk
\* warning nor a borderline warning for a Normal result with c < 0.6 is
\* produced, for any raw score.
C26_NoFalseNegativeWarning ==
    (current_prediction # None /\ current_prediction[1].result = "Normal") =>
        LET w == current_prediction[1].analysis.warnings
            has(x) == \E i \in 1..Len(w) : w[i] = x
        IN  /\ current_prediction[1].confidence >= 60 * Percent
            /\ ~has("Potential False Negative Risk")
            /\ has("Borderline Case") <=> current_prediction[1].confidence < 65 * Percent
            /\ confidence[1] <= PNEUMONIA_THRESHOLD

\* the raw score 0.40 is Normal with c = 0.6: borderline, no false-negative
\* risk warning
C26_Witness ==
    /\ current_prediction # None
    /\ confidence[1] = PNEUMONIA_THRESHOLD
    /\ current_prediction[1].result = "Normal"
    /\ current_prediction[1].confidence = 60 * Percent
    /\ current_prediction[1].analysis.warnings =
          <<"Low Confidence Normal", "Borderline Case">>

\* C27: analyze_prediction (API path) and generate_gradcam_with_prediction
\* (dashboard path) assign the same label and the same confidence
\* percentage to every raw score.
C27_EntryPointsAgree ==
    fn = "analyze_prediction" =>
        /\ out[1].prediction_result = GradcamClassify(arg).prediction_result
        /\ out[1].confidence_score = GradcamClassify(arg).confidence

\* C28: POST /predict is all-or-nothing with respect to persistence: when
\* the handler ends with an error response no prediction document of the
\* request remains stored.
C28_AllOrNothing ==
    (api_pc = "done" /\ api_resp[1].status_code # 200) => db_predictions = <<>>

\* C30: get_prediction_analysis keeps warnings and recommendations paired:
\* equal lengths, the i-th recommendation is that of the i-th warning's
\* rule, both in the fixed rule order, and at most three entries.
C30_Paired ==
    fn = "get_prediction_analysis" =>
        LET w == out[1].warnings
            r == out[1].recommendations
            rank(x) == CASE x = "Low Confidence Normal" -> 1
                         [] x = "Uncertain Pneumonia" -> 2
                         [] x = "Borderline Case" -> 3
                         [] x = "Potential False Negative Risk" -> 4
                         [] OTHER -> 0
            pair(x) == CASE x = "Low Confidence Normal" ->
                                "Recommend clinical correlation with symptoms"
                         [] x = "Uncertain Pneumonia" ->
                                "Suggest radiologist review for confirmation"
                         [] x = "Borderline Case" ->
                                "Consider additional imaging or clinical assessment"
                         [] x = "Potential False Negative Risk" ->
                                "Do not rule out pneumonia based on AI alone"
                         [] OTHER -> "none"
        IN  /\ Len(w) = Len(r)
            /\ \A i \in 1..Len(w) : rank(w[i]) > 0
            /\ \A i \in 1..Len(w) : i <= Len(r) => r[i] = pair(w[i])
            /\ \A i \in 1..Len(w) : \A j \in 1..Len(w) :
                  i < j => rank(w[i]) < rank(w[j])
            /\ Len(w) <= 3

\* a Normal result with c = 0.5 carries three paired entries
C30_Witness ==
    /\ fn = "get_prediction_analysis"
    /\ arg = 50
    /\ arg_result = "Normal"
    /\ Len(out[1].warnings) = 3
    /\ out[1].recommendations =
          <<"Recommend clinical correlation with symptoms",
            "Consider additional imaging or clinical assessment",
            "Do not rule out pneumonia based on AI alone">>


\* C22: get_database is a singleton accessor: under any interleaving of
\* concurrent callers at most one PneumoniaDatabase instance is constructed
\* and every call returns that same instance.
C22_Singleton ==
    /\ constructed <= 1
    /\ \A t \in Callers : \A u \in Callers :
          (g_pc[t] = "returned" /\ g_pc[u] = "returned") => g_ret[t] = g_ret[u]

\* C23: send_email_report logs a report only after the email was sent:
\* log_report is called exactly once when send_email succeeded and not at
\* all when SMTP_USER is missing, the receiver address is invalid or sending
\* failed, in which cases the result has success = False and neither store
\* changes; a logging failure after a successful send leaves success = True
\* and appends a warning to the message.
C23_LogAfterSend ==
    [][(e_op' = "send_email_report" /\ e_n' = e_n + 1) =>
          LET x == e_arg'[1]
              r == e_ret'[1]
              sent == /\ x.smtp_user /\ x.receiver_valid /\ x.sender_valid
                      /\ x.has_password /\ x.smtp = "sent"
          IN  /\ r.success = sent
              /\ sent =>
                    /\ log_calls' = log_calls + 1
                    /\ r.logging # None
                    /\ Len(mongodb_collection') + Len(fallback_reports') =
                          Len(mongodb_collection) + Len(fallback_reports)
                              + (IF r.logging[1].success THEN 1 ELSE 0)
                    /\ ~r.logging[1].success =>
                          r.message = <<"Email sent successfully",
                                        "Warning: Report logging failed">>
              /\ ~sent =>
                    /\ log_calls' = log_calls
                    /\ r.logging = None
                    /\ mongodb_collection' = mongodb_collection
                    /\ fallback_reports' = fallback_reports]_vars

\* the email was sent and logging failed: success with a warning
C23_Witness ==
    /\ e_op = "send_email_report"
    /\ e_ret[1].success
    /\ ~e_ret[1].logging[1].success
    /\ log_calls = 1
    /\ e_ret[1].message = <<"Email sent successfully", "Warning: Report logging failed">>

C29_CountIsTotal ==
    e_op = "get_reports_count" => e_ret[1].count = logged

====
